---- MODULE Spec2Model ----
(***************************************************************************)
(* Model of libafl_qemu/src/arch/riscv64.rs: the RISC-V register identity  *)
(* model (Regs), the exit-argument slot map (EXIT_ARCH_REGS behind a       *)
(* OnceLock) and the ArchExtras implementation for CPU (return address     *)
(* and function argument accessors).                                       *)
(***************************************************************************)
EXTENDS Integers, Sequences, FiniteSets, TLC

VARIABLES regs, pre, call, result, accessLog,
          once, cell, storeCount, pc, ret, calls,
          convIn, convRes, convOut

cpuVars  == <<regs, pre, call, result, accessLog>>
onceVars == <<once, cell, storeCount, pc, ret, calls>>
convVars == <<convIn, convRes, convOut>>
vars     == <<regs, pre, call, result, accessLog,
              once, cell, storeCount, pc, ret, calls,
              convIn, convRes, convOut>>

\* ------------------------------------------------------------------ bounds
MaxVal      == 1    \* values written are drawn from 0..MaxVal
MaxReadIdx  == 8    \* read indices (u8) are drawn from 0..MaxReadIdx and U8Max
MaxWriteIdx == 2    \* write indices (i32) are drawn from -MaxWriteIdx..MaxWriteIdx
NumAccErrs  == 1    \* distinct errors the guest-CPU accessor can raise
NumThreads  == 3    \* threads calling get_exit_arch_regs
MaxCalls    == 2    \* calls of get_exit_arch_regs per thread
MaxProbe    == 40   \* from_index is probed on -MaxProbe..(MaxProbe + 32)

\* -------------------------------------------------------- program constants
U8Max       == 255  \* largest idx: u8 of read_function_argument

\* ------------------------------------------------- Register Identity Model
\* enum Regs, #[repr(i32)]: variant name and discriminant, in source order
RegsEnumPcCollides ==
    << <<"Zero", 0>>, <<"Ra", 1>>, <<"Sp", 2>>, <<"Gp", 3>>, <<"Tp", 4>>,
       <<"T0", 5>>, <<"T1", 6>>, <<"T2", 7>>, <<"S0", 8>>, <<"S1", 9>>,
       <<"A0", 10>>, <<"A1", 11>>, <<"A2", 12>>, <<"A3", 13>>, <<"A4", 14>>,
       <<"A5", 15>>, <<"A6", 16>>, <<"A7", 17>>, <<"S2", 18>>, <<"S3", 19>>,
       <<"S4", 20>>, <<"S5", 21>>, <<"S6", 22>>, <<"S7", 23>>, <<"S8", 24>>,
       <<"S9", 25>>, <<"S10", 26>>, <<"S11", 27>>, <<"T3", 28>>, <<"T4", 29>>,
       <<"T5", 30>>, <<"T6", 31>>, <<"Pc", 31>> >>

RegsEnum ==
    << <<"Zero", 0>>, <<"Ra", 1>>, <<"Sp", 2>>, <<"Gp", 3>>, <<"Tp", 4>>,
       <<"T0", 5>>, <<"T1", 6>>, <<"T2", 7>>, <<"S0", 8>>, <<"S1", 9>>,
       <<"A0", 10>>, <<"A1", 11>>, <<"A2", 12>>, <<"A3", 13>>, <<"A4", 14>>,
       <<"A5", 15>>, <<"A6", 16>>, <<"A7", 17>>, <<"S2", 18>>, <<"S3", 19>>,
       <<"S4", 20>>, <<"S5", 21>>, <<"S6", 22>>, <<"S7", 23>>, <<"S8", 24>>,
       <<"S9", 25>>, <<"S10", 26>>, <<"S11", 27>>, <<"T3", 28>>, <<"T4", 29>>,
       <<"T5", 30>>, <<"T6", 31>>, <<"Pc", 32>> >>

\* the variants of Regs
Regs == { RegsEnum[k][1] : k \in 1..Len(RegsEnum) }

\* impl Regs { pub const Fp: Regs = Regs::S0; }
Fp == "S0"

\* IntoPrimitive: i32::from(reg), the discriminant of the variant
to_index(r) ==
    LET k == CHOOSE j \in 1..Len(RegsEnum) : RegsEnum[j][1] = r
    IN  RegsEnum[k][2]

\* a from_index that only accepts the native range and forgets Pc
from_index_native_only(i) ==
    IF i >= 0 /\ i <= 31
    THEN [kind |-> "Ok",
          reg  |-> RegsEnum[CHOOSE j \in 1..Len(RegsEnum) : RegsEnum[j][2] = i][1]]
    ELSE [kind |-> "Err", cause |-> "InvalidRegister", number |-> i]

\* TryFromPrimitive: Regs::try_from(i), a match over the discriminants
from_index(i) ==
    IF \E j \in 1..Len(RegsEnum) : RegsEnum[j][2] = i
    THEN [kind |-> "Ok",
          reg  |-> RegsEnum[CHOOSE j \in 1..Len(RegsEnum) : RegsEnum[j][2] = i][1]]
    ELSE [kind |-> "Err", cause |-> "InvalidRegister", number |-> i]

\* ------------------------------------------------- Exit-Argument Slot Map
ExitArgs == {"Ret", "Cmd", "Arg1", "Arg2", "Arg3", "Arg4", "Arg5", "Arg6"}

\* a slot table whose Arg2 entry repeats the register of Arg1
ExitArchRegsArgSlip ==
    [s \in ExitArgs |->
        CASE s = "Ret"  -> "A0"
          [] s = "Cmd"  -> "A0"
          [] s = "Arg1" -> "A1"
          [] s = "Arg2" -> "A1"
          [] s = "Arg3" -> "A3"
          [] s = "Arg4" -> "A4"
          [] s = "Arg5" -> "A5"
          [] s = "Arg6" -> "A6"]

\* the enum_map! literal of get_exit_arch_regs
ExitArchRegsLiteral ==
    [s \in ExitArgs |->
        CASE s = "Ret"  -> "A0"
          [] s = "Cmd"  -> "A0"
          [] s = "Arg1" -> "A1"
          [] s = "Arg2" -> "A2"
          [] s = "Arg3" -> "A3"
          [] s = "Arg4" -> "A4"
          [] s = "Arg5" -> "A5"
          [] s = "Arg6" -> "A6"]

\* ------------------------------------------ external collaborators (crate)
\* enum CallingConvention: the supported tag and the tags that are rejected
CallingConvention == {"Cdecl", "Stdcall", "Fastcall"}

\* pub type GuestReg = u64; the values the model lets a register carry
GuestReg == (0..MaxVal) \cup { 10 * k : k \in 1..8 } \cup { 100 + i : i \in 0..32 }

\* Result<(), QemuRWError>::Ok(())
OkUnit == [kind |-> "Ok"]

\* Result<T, QemuRWError>::Ok(v)
OkVal(v) == [kind |-> "Ok", val |-> v]

\* QemuRWError raised by the guest-CPU accessor itself
AccessorError(rw, reg, code) ==
    [kind |-> "Err", cause |-> "Accessor", rw |-> rw, reg |-> reg, code |-> code]

\* QemuRWError::new_argument_error(kind, reg_id)
new_argument_error(rw, idx) ==
    [kind |-> "Err", cause |-> "InvalidArgumentIndex", rw |-> rw, idx |-> idx]

\* QemuRWError::check_conv(kind, expected_conv, given_conv)
check_conv(rw, expected, given) ==
    IF expected # given
    THEN [kind |-> "Err", cause |-> "ConventionMismatch", rw |-> rw,
          expected |-> expected, given |-> given]
    ELSE OkUnit

\* What one call leaves behind: its result, the guest registers afterwards
\* and the accessor invocations it made, in order.
Outcome(res, cpu, log) == [res |-> res, cpu |-> cpu, log |-> log]

\* CPU::read_reg(reg): acc[n] is the fate of the n-th accessor invocation of
\* this call (0: success, c > 0: the accessor raises its error c)
read_reg(cpu, reg, acc, n) ==
    IF acc[n] = 0
    THEN Outcome(OkVal(cpu[reg]), cpu,
                 << [op |-> "read", reg |-> reg, val |-> cpu[reg], code |-> 0] >>)
    ELSE Outcome(AccessorError("Read", reg, acc[n]), cpu,
                 << [op |-> "read", reg |-> reg, val |-> cpu[reg], code |-> acc[n]] >>)

\* CPU::write_reg(reg, val): a failed write leaves the register as it was
write_reg(cpu, reg, val, acc, n) ==
    IF acc[n] = 0
    THEN Outcome(OkUnit, [cpu EXCEPT ![reg] = val],
                 << [op |-> "write", reg |-> reg, val |-> val, code |-> 0] >>)
    ELSE Outcome(AccessorError("Write", reg, acc[n]), cpu,
                 << [op |-> "write", reg |-> reg, val |-> val, code |-> acc[n]] >>)

\* ------------------------------------------- impl ArchExtras for crate::CPU
\* a read_return_address that tries the accessor a second time on failure
read_return_address_retry(cpu, acc) ==
    LET first == read_reg(cpu, "Ra", acc, 1)
    IN  IF first.res.kind = "Ok" THEN first
        ELSE LET second == read_reg(cpu, "Ra", acc, 2)
             IN  Outcome(second.res, second.cpu, first.log \o second.log)

\* fn read_return_address: self.read_reg(Regs::Ra)
read_return_address(cpu, acc) == read_reg(cpu, "Ra", acc, 1)

\* a write_return_address that targets the stack pointer
write_return_address_sp(cpu, val, acc) == write_reg(cpu, "Sp", val, acc, 1)

\* fn write_return_address: self.write_reg(Regs::Ra, val)
write_return_address(cpu, val, acc) == write_reg(cpu, "Ra", val, acc, 1)

\* an argument table with the entries of A1 and A2 exchanged
ReadArgRegSwapped(idx) ==
    CASE idx = 0 -> "A0"
      [] idx = 1 -> "A2"
      [] idx = 2 -> "A1"
      [] idx = 3 -> "A3"
      [] idx = 4 -> "A4"
      [] idx = 5 -> "A5"
      [] idx = 6 -> "A6"
      [] idx = 7 -> "A7"
      [] OTHER   -> "none"

\* the match of read_function_argument: index to register, "none" for the
\* catch-all arm
ReadArgReg(idx) ==
    CASE idx = 0 -> "A0"
      [] idx = 1 -> "A1"
      [] idx = 2 -> "A2"
      [] idx = 3 -> "A3"
      [] idx = 4 -> "A4"
      [] idx = 5 -> "A5"
      [] idx = 6 -> "A6"
      [] idx = 7 -> "A7"
      [] OTHER   -> "none"

\* i32::from(r) for r: u8, a widening that keeps the value
I32FromU8(r) == r

\* a read_function_argument that resolves the index before the convention
read_function_argument_index_first(cpu, conv, idx, acc) ==
    IF ReadArgReg(idx) = "none"
    THEN Outcome(new_argument_error("Read", I32FromU8(idx)), cpu, << >>)
    ELSE LET c == check_conv("Read", "Cdecl", conv)
         IN  IF c.kind = "Err" THEN Outcome(c, cpu, << >>)
             ELSE read_reg(cpu, ReadArgReg(idx), acc, 1)

\* fn read_function_argument(conv, idx: u8)
read_function_argument(cpu, conv, idx, acc) ==
    LET c == check_conv("Read", "Cdecl", conv)
    IN  IF c.kind = "Err" THEN Outcome(c, cpu, << >>)
        ELSE IF ReadArgReg(idx) = "none"
             THEN Outcome(new_argument_error("Read", I32FromU8(idx)), cpu, << >>)
             ELSE read_reg(cpu, ReadArgReg(idx), acc, 1)

\* val.into() for T: Into<GuestReg>, here T = GuestReg
IntoGuestReg(val) == val

\* a write_function_argument that drops the convention check
write_function_argument_unchecked(cpu, conv, idx, val, acc) ==
    CASE idx = 0 -> write_reg(cpu, "A0", IntoGuestReg(val), acc, 1)
      [] idx = 1 -> write_reg(cpu, "A1", IntoGuestReg(val), acc, 1)
      [] OTHER   -> Outcome(new_argument_error("Write", idx), cpu, << >>)

\* a write_function_argument that mirrors the read table for index 2
write_function_argument_three(cpu, conv, idx, val, acc) ==
    LET c == check_conv("Write", "Cdecl", conv)
    IN  IF c.kind = "Err" THEN Outcome(c, cpu, << >>)
        ELSE CASE idx = 0 -> write_reg(cpu, "A0", IntoGuestReg(val), acc, 1)
               [] idx = 1 -> write_reg(cpu, "A1", IntoGuestReg(val), acc, 1)
               [] idx = 2 -> write_reg(cpu, "A2", IntoGuestReg(val), acc, 1)
               [] OTHER   -> Outcome(new_argument_error("Write", idx), cpu, << >>)

\* fn write_function_argument(conv, idx: i32, val)
write_function_argument(cpu, conv, idx, val, acc) ==
    LET c == check_conv("Write", "Cdecl", conv)
    IN  IF c.kind = "Err" THEN Outcome(c, cpu, << >>)
        ELSE CASE idx = 0 -> write_reg(cpu, "A0", IntoGuestReg(val), acc, 1)
               [] idx = 1 -> write_reg(cpu, "A1", IntoGuestReg(val), acc, 1)
               [] OTHER   -> Outcome(new_argument_error("Write", idx), cpu, << >>)

\* ------------------------------------------------------ guest CPU: state
\* argument registers preloaded 10, 20, ..., 80; every other register holds
\* a value of its own
Preload ==
    [r \in Regs |->
        IF to_index(r) \in 10..17 THEN 10 * (to_index(r) - 9)
        ELSE 100 + to_index(r)]

\* the fate of the first accessor invocation of a call and of a second one,
\* should the call make it
AccOutcomes == (0..NumAccErrs) \X (0..NumAccErrs)
WriteVals   == 0..MaxVal
ReadIdx     == (0..MaxReadIdx) \cup {U8Max}
WriteIdx    == (0 - MaxWriteIdx)..MaxWriteIdx

NoCall == [op |-> "none", conv |-> "Cdecl", idx |-> 0, val |-> 0]

InitCPU ==
    /\ regs = Preload
    /\ pre = Preload
    /\ call = NoCall
    /\ result = OkUnit
    /\ accessLog = << >>

\* the caller's call, and what it left behind
Record(c, out) ==
    /\ pre' = regs
    /\ call' = c
    /\ regs' = out.cpu
    /\ result' = out.res
    /\ accessLog' = out.log

ReadReturnAddress ==
    \E acc \in AccOutcomes :
        /\ Record([op |-> "read_return_address", conv |-> "Cdecl", idx |-> 0, val |-> 0],
                  read_return_address(regs, acc))
        /\ UNCHANGED <<onceVars, convVars>>

WriteReturnAddress ==
    \E acc \in AccOutcomes, v \in WriteVals :
        /\ Record([op |-> "write_return_address", conv |-> "Cdecl", idx |-> 0, val |-> v],
                  write_return_address(regs, v, acc))
        /\ UNCHANGED <<onceVars, convVars>>

ReadFunctionArgument ==
    \E acc \in AccOutcomes, conv \in CallingConvention, idx \in ReadIdx :
        /\ Record([op |-> "read_function_argument", conv |-> conv, idx |-> idx, val |-> 0],
                  read_function_argument(regs, conv, idx, acc))
        /\ UNCHANGED <<onceVars, convVars>>

WriteFunctionArgument ==
    \E acc \in AccOutcomes, conv \in CallingConvention, idx \in WriteIdx, v \in WriteVals :
        /\ Record([op |-> "write_function_argument", conv |-> conv, idx |-> idx, val |-> v],
                  write_function_argument(regs, conv, idx, v, acc))
        /\ UNCHANGED <<onceVars, convVars>>

Next ==
    \/ ReadReturnAddress
    \/ WriteReturnAddress
    \/ ReadFunctionArgument
    \/ WriteFunctionArgument

\* --------------------------- EXIT_ARCH_REGS: OnceLock<EnumMap<ExitArgs, Regs>>
Threads == 1..NumThreads

InitOnce ==
    /\ once = "Incomplete"
    /\ cell = << >>
    /\ storeCount = 0
    /\ pc = [t \in Threads |-> "idle"]
    /\ ret = [t \in Threads |-> << >>]
    /\ calls = [t \in Threads |-> 0]

\* a claim test that also lets a second initializer in while one is running
OnceNotComplete(state) == state # "Complete"

\* Once: may the caller claim the initialization (Incomplete -> Running)
OnceIsIncomplete(state) == state = "Incomplete"

\* a thread enters get_exit_arch_regs()
GetExitArchRegs(t) ==
    /\ pc[t] = "idle"
    /\ calls[t] < MaxCalls
    /\ pc' = [pc EXCEPT ![t] = "get"]
    /\ UNCHANGED <<once, cell, storeCount, ret, calls, cpuVars, convVars>>

\* get_or_init, fast path: the cell is already initialized
FastPath(t) ==
    /\ pc[t] = "get"
    /\ IF once = "Complete"
       THEN /\ ret' = [ret EXCEPT ![t] = cell]
            /\ pc' = [pc EXCEPT ![t] = "done"]
       ELSE /\ pc' = [pc EXCEPT ![t] = "initialize"]
            /\ UNCHANGED ret
    /\ UNCHANGED <<once, cell, storeCount, calls, cpuVars, convVars>>

\* get_or_init, slow path: claim the Once, or find it completed meanwhile; a
\* thread that finds it Running waits
CallOnce(t) ==
    /\ pc[t] = "initialize"
    /\ \/ /\ once = "Complete"
          /\ pc' = [pc EXCEPT ![t] = "get_unchecked"]
          /\ UNCHANGED once
       \/ /\ OnceIsIncomplete(once)
          /\ once' = "Running"
          /\ pc' = [pc EXCEPT ![t] = "closure"]
    /\ UNCHANGED <<cell, storeCount, ret, calls, cpuVars, convVars>>

\* the closure builds the enum_map! literal, the value is stored and the Once
\* completes
RunClosure(t) ==
    /\ pc[t] = "closure"
    /\ cell' = << ExitArchRegsLiteral >>
    /\ storeCount' = storeCount + 1
    /\ once' = "Complete"
    /\ pc' = [pc EXCEPT ![t] = "get_unchecked"]
    /\ UNCHANGED <<ret, calls, cpuVars, convVars>>

\* get_or_init returns the reference to the stored value
GetUnchecked(t) ==
    /\ pc[t] = "get_unchecked"
    /\ ret' = [ret EXCEPT ![t] = cell]
    /\ pc' = [pc EXCEPT ![t] = "done"]
    /\ UNCHANGED <<once, cell, storeCount, calls, cpuVars, convVars>>

\* the caller has its &'static EnumMap and may call again
Return(t) ==
    /\ pc[t] = "done"
    /\ pc' = [pc EXCEPT ![t] = "idle"]
    /\ calls' = [calls EXCEPT ![t] = calls[t] + 1]
    /\ UNCHANGED <<once, cell, storeCount, ret, cpuVars, convVars>>

NextOnce ==
    \/ \E t \in Threads : GetExitArchRegs(t)
    \/ \E t \in Threads : FastPath(t)
    \/ \E t \in Threads : CallOnce(t)
    \/ \E t \in Threads : RunClosure(t)
    \/ \E t \in Threads : GetUnchecked(t)
    \/ \E t \in Threads : Return(t)

\* ------------------------------------------ Regs <-> i32 conversions in use
ConvInputs == (0 - MaxProbe)..(MaxProbe + 32)

Pending == [kind |-> "Pending"]

InitConvIdle ==
    /\ convIn = << >>
    /\ convRes = Pending
    /\ convOut = << >>

\* an integer to convert, or none when a register is named instead; the
\* guest CPU and the slot map are left as constructed
InitConv ==
    /\ convIn \in { << i >> : i \in ConvInputs } \cup { << >> }
    /\ convRes = Pending
    /\ convOut = << >>
    /\ regs = Preload
    /\ pre = Preload
    /\ call = NoCall
    /\ result = OkUnit
    /\ accessLog = << >>
    /\ once = "Incomplete"
    /\ cell = << >>
    /\ storeCount = 0
    /\ pc = [t \in Threads |-> "idle"]
    /\ ret = [t \in Threads |-> << >>]
    /\ calls = [t \in Threads |-> 0]

\* Regs::try_from(i) on the integer at hand
TryFrom ==
    /\ convIn # << >>
    /\ convRes = Pending
    /\ convRes' = from_index(convIn[1])
    /\ UNCHANGED <<convIn, convOut, cpuVars, onceVars>>

\* a register named in the program, Regs::Fp included
NameReg ==
    /\ convIn = << >>
    /\ convRes = Pending
    /\ \E r \in Regs \cup {Fp} : convRes' = [kind |-> "Ok", reg |-> r]
    /\ UNCHANGED <<convIn, convOut, cpuVars, onceVars>>

\* i32::from(reg) on the register at hand
IntoI32 ==
    /\ convRes.kind = "Ok"
    /\ convOut = << >>
    /\ convOut' = << to_index(convRes.reg) >>
    /\ UNCHANGED <<convIn, convRes, cpuVars, onceVars>>

NextConv ==
    \/ TryFrom
    \/ NameReg
    \/ IntoI32

\* ---------------------------------------------------------- specifications
Init == InitCPU /\ InitOnce /\ InitConvIdle

Spec == Init /\ [][Next]_vars

SpecOnce == Init /\ [][NextOnce]_vars

SpecConv == InitConv /\ [][NextConv]_vars

\* ------------------------------------------------------------- properties
FnArgOps == {"read_function_argument", "write_function_argument"}

RwOf(op) == IF op \in {"read_function_argument", "read_return_address"}
            THEN "Read" ELSE "Write"

\* the RISC-V integer argument registers in ABI order
ArgRegsABI == <<"A0", "A1", "A2", "A3", "A4", "A5", "A6", "A7">>

IsErr(cause) == result.kind = "Err" /\ result.cause = cause

\* C1: with any convention other than Cdecl, read_function_argument and
\* write_function_argument fail with ConventionMismatch carrying the expected
\* (Cdecl) and the supplied convention, whatever the index and the guest
\* state; the accessor is not invoked and the guest registers are unchanged.
C1_ConventionMismatchNoAccess ==
    (call.op \in FnArgOps /\ call.conv # "Cdecl") =>
        /\ result = [kind |-> "Err", cause |-> "ConventionMismatch",
                     rw |-> RwOf(call.op), expected |-> "Cdecl",
                     given |-> call.conv]
        /\ accessLog = << >>
        /\ regs = pre

C1_Witness ==
    /\ call.op = "write_function_argument"
    /\ call.conv = "Stdcall"
    /\ call.idx = 0
    /\ IsErr("ConventionMismatch")
    /\ pre # Preload

\* C2: with Cdecl, read_function_argument(idx) for idx in 0..=7 invokes the
\* accessor once, on the idx-th argument register in ABI order, and returns
\* the value the accessor holds for it (20 for index 1 when A1 holds 20); for
\* idx >= 8 it fails with InvalidArgumentIndex carrying idx and reads nothing.
C2_ReadResolvesArgumentRegister ==
    (call.op = "read_function_argument" /\ call.conv = "Cdecl") =>
        IF call.idx \in 0..7
        THEN /\ Len(accessLog) = 1
             /\ accessLog[1].op = "read"
             /\ accessLog[1].reg = ArgRegsABI[call.idx + 1]
             /\ accessLog[1].code = 0 =>
                    /\ result = [kind |-> "Ok", val |-> pre[ArgRegsABI[call.idx + 1]]]
                    /\ (call.idx = 1 /\ pre["A1"] = 20) => result.val = 20
             /\ result.kind = "Ok" => accessLog[1].code = 0
        ELSE /\ result = [kind |-> "Err", cause |-> "InvalidArgumentIndex",
                          rw |-> "Read", idx |-> call.idx]
             /\ accessLog = << >>

C2_Witness ==
    /\ call.op = "read_function_argument"
    /\ call.conv = "Cdecl"
    /\ call.idx = 1
    /\ pre["A0"] = 10 /\ pre["A1"] = 20 /\ pre["A2"] = 30
    /\ result = [kind |-> "Ok", val |-> 20]

\* C3: with Cdecl, write_function_argument succeeds only for idx 0 (a write
\* of A0) and idx 1 (a write of A1); for every other idx, 2..=7 and negative
\* ones included, it fails with InvalidArgumentIndex carrying idx and writes
\* no register.
C3_WriteOnlyFirstTwoArguments ==
    (call.op = "write_function_argument" /\ call.conv = "Cdecl") =>
        IF call.idx \in {0, 1}
        THEN /\ Len(accessLog) = 1
             /\ accessLog[1].op = "write"
             /\ accessLog[1].reg = ArgRegsABI[call.idx + 1]
             /\ accessLog[1].val = call.val
             /\ result.kind = "Ok" <=> accessLog[1].code = 0
        ELSE /\ result = [kind |-> "Err", cause |-> "InvalidArgumentIndex",
                          rw |-> "Write", idx |-> call.idx]
             /\ accessLog = << >>
             /\ regs = pre

C3_Witness ==
    /\ call.op = "write_function_argument"
    /\ call.conv = "Cdecl"
    /\ call.idx = 2
    /\ IsErr("InvalidArgumentIndex")
    /\ result.idx = 2

\* every mapping a caller of get_exit_arch_regs() has been handed
Returned == { ret[t][1] : t \in { u \in Threads : ret[u] # << >> } }

Total(m) == DOMAIN m = ExitArgs /\ \A s \in ExitArgs : m[s] \in Regs

\* C4 as stated: the slot map returned by get_exit_arch_regs() is total over
\* the eight slots, one register each, and injective.
C4_TotalAndInjective ==
    \A m \in Returned :
        /\ Total(m)
        /\ \A s1, s2 \in ExitArgs : s1 # s2 => m[s1] # m[s2]

\* C4 amended: the slot map returned by get_exit_arch_regs() is total over
\* the eight slots, one register each; Ret and Cmd share A0 and no other two
\* slots share a register.
C4_TotalSharingOnlyRetCmd ==
    \A m \in Returned :
        /\ Total(m)
        /\ Cardinality(ExitArgs) = 8
        /\ m["Ret"] = "A0" /\ m["Cmd"] = "A0"
        /\ \A s1, s2 \in ExitArgs :
              (s1 # s2 /\ m[s1] = m[s2]) => {s1, s2} = {"Ret", "Cmd"}

C4_Witness ==
    \E t \in Threads : pc[t] = "done" /\ ret[t] # << >> /\ ret[t][1]["Arg6"] = "A6"

\* C5: under any interleaving of concurrent and repeated calls of
\* get_exit_arch_regs(), the map is stored at most once, every call that has
\* returned holds the one stored mapping, and the stored mapping never
\* changes.
C5_StoredOnceAndStable ==
    /\ [](/\ storeCount <= 1
          /\ Len(cell) = storeCount
          /\ \A t \in Threads : ret[t] # << >> => ret[t] = cell
          /\ \A t \in Threads : pc[t] = "done" => ret[t] # << >>)
    /\ [][cell # << >> => cell' = cell]_vars

C5_Witness ==
    \E t1, t2 \in Threads :
        /\ t1 # t2
        /\ pc[t1] = "get_unchecked"
        /\ pc[t2] = "done"
        /\ calls[t2] = 0
        /\ ret[t2] = cell
        /\ storeCount = 1

\* C6: from_index(i) succeeds exactly for i in 0..=31 or the program-counter
\* sentinel, and then to_index(from_index(i)) = i; for every other integer,
\* negative ones included, it fails with InvalidRegister; to_index yields an
\* identity for every register.
C6_FromIndexRoundTrip ==
    /\ (convIn # << >> /\ convRes # Pending) =>
          /\ convRes.kind = "Ok" <=> (convIn[1] \in 0..31 \/ convIn[1] = 32)
          /\ convRes.kind # "Ok" =>
                convRes = [kind |-> "Err", cause |-> "InvalidRegister",
                           number |-> convIn[1]]
          /\ convOut # << >> => convOut[1] = convIn[1]
    /\ (convRes # Pending /\ convRes.kind = "Ok") =>
          /\ convRes.reg \in Regs
          /\ ENABLED IntoI32 \/ convOut # << >>
          /\ convOut # << >> => convOut[1] \in Int

C6_Witness ==
    /\ convIn = << 32 >>
    /\ convRes = [kind |-> "Ok", reg |-> "Pc"]
    /\ convOut = << 32 >>

\* C7: the Regs variants have pairwise distinct non-negative identities, the
\* identity of Pc lies outside 0..=31, and Fp has the identity of S0 and adds
\* no identity to the set.
C7_DistinctIdentities ==
    /\ \A r1, r2 \in Regs : r1 # r2 => to_index(r1) # to_index(r2)
    /\ Cardinality(Regs) = Len(RegsEnum)
    /\ Cardinality({ to_index(r) : r \in Regs \cup {Fp} }) = Cardinality(Regs)
    /\ convOut # << >> =>
          /\ convOut[1] >= 0
          /\ convRes.reg = "Pc" => convOut[1] \notin 0..31
          /\ convRes.reg = Fp => convOut[1] = 8
          /\ convRes.reg = "S0" => convOut[1] = 8

C7_Witness ==
    /\ convIn = << >>
    /\ convRes = [kind |-> "Ok", reg |-> "Pc"]
    /\ convOut = << 32 >>

\* the calls whose convention and index pass validation
ValidCall ==
    \/ call.op \in {"read_return_address", "write_return_address"}
    \/ call.op = "read_function_argument" /\ call.conv = "Cdecl" /\ call.idx \in 0..7
    \/ call.op = "write_function_argument" /\ call.conv = "Cdecl" /\ call.idx \in {0, 1}

\* C8: when convention and index are valid, each of the four operations
\* invokes the accessor exactly once, and when the accessor fails the
\* operation returns exactly the accessor's error.
C8_AccessorErrorUnchanged ==
    ValidCall =>
        /\ Len(accessLog) = 1
        /\ accessLog[1].code # 0 =>
              result = [kind |-> "Err", cause |-> "Accessor",
                        rw |-> RwOf(call.op), reg |-> accessLog[1].reg,
                        code |-> accessLog[1].code]
        /\ accessLog[1].code = 0 => result.kind = "Ok"

C8_Witness ==
    /\ call.op = "read_return_address"
    /\ Len(accessLog) = 1
    /\ accessLog[1].code = 1
    /\ IsErr("Accessor")

IndexOutOfRange ==
    \/ call.op = "read_function_argument" /\ call.idx \notin 0..7
    \/ call.op = "write_function_argument" /\ call.idx \notin {0, 1}

\* C9: a read_function_argument or write_function_argument call with both a
\* non-matching convention and an out-of-range index returns
\* ConventionMismatch; InvalidArgumentIndex is returned only when the
\* convention matches.
C9_ConventionCheckedFirst ==
    /\ (call.op \in FnArgOps /\ call.conv # "Cdecl" /\ IndexOutOfRange) =>
          IsErr("ConventionMismatch")
    /\ IsErr("InvalidArgumentIndex") => call.conv = "Cdecl"

C9_Witness ==
    /\ call.op = "read_function_argument"
    /\ call.conv = "Fastcall"
    /\ call.idx = 8
    /\ IsErr("ConventionMismatch")

\* C10: a successful write_function_argument(idx, v) or
\* write_return_address(v) sets only its target register (A0 or A1, resp. Ra)
\* to v; reads and failing calls leave every guest register unchanged; and a
\* read_return_address right after a write_return_address(v) returns v.
C10_WritesTouchOnlyTheirTarget ==
    /\ [](IF result.kind = "Ok" /\ call.op = "write_return_address"
          THEN regs = [pre EXCEPT !["Ra"] = call.val]
          ELSE IF result.kind = "Ok" /\ call.op = "write_function_argument"
          THEN regs = [pre EXCEPT ![ArgRegsABI[call.idx + 1]] = call.val]
          ELSE regs = pre)
    /\ [][(/\ call.op = "write_return_address" /\ result.kind = "Ok"
           /\ call'.op = "read_return_address" /\ result'.kind = "Ok")
          => result'.val = call.val]_vars

C10_Witness ==
    /\ call.op = "read_return_address"
    /\ result = [kind |-> "Ok", val |-> 1]
    /\ regs["A0"] = 0
    /\ regs["A2"] = 30

====
